---- MODULE Spec2Model ----
(***************************************************************************)
(* A model of colls.py, a wrapper that reformats the output of             *)
(* `ls --color=always -lQAhF` into selected, aligned columns.              *)
(*                                                                         *)
(* A Python str is a sequence of one-character strings.  The escape        *)
(* character \x1b is the token ESC.  Python's 0-based indices are kept in  *)
(* the definitions that model index arithmetic (Slice, At, find, rfind).   *)
(***************************************************************************)
EXTENDS Integers, Sequences, FiniteSets, TLC

VARIABLES
    pc,               \* position of main()
    args,             \* sys.argv[1:], as main() mutates it
    use_quotes, show_header, max_pad,
    columns_to_show, separators,
    stdout,           \* result.stdout.splitlines()
    lines,            \* stdout minus a leading total line
    widths, extra_widths,
    idx,              \* index of the next line of the running for-loop
    file_count,
    out,              \* the lines printed to standard output, in order
    row,              \* the cells of the row rendered last (locals of the loop body)
    fn_pc, fn_in, fn_out   \* a single function under test: position, input, result

mainVars == <<pc, args, use_quotes, show_header, max_pad, columns_to_show,
              separators, stdout, lines, widths, extra_widths, idx, file_count,
              out, row>>
fnVars == <<fn_pc, fn_in, fn_out>>
vars == <<mainVars, fnVars>>

----------------------------------------------------------------------------
(* Characters and Python string primitives *)

ESC == "ESC"
DQ == "\""
Digits == {"0", "1", "2", "3", "4", "5", "6", "7", "8", "9"}
Whitespace == {" ", "\t"}
ArrowSep == <<" ", "-", ">", " ">>

Max(a, b) == IF a >= b THEN a ELSE b

Range(s) == {s[i] : i \in DOMAIN s}

\* s[a:b] of Python for 0 <= a
Slice(s, a, b) == SubSeq(s, a + 1, IF b > Len(s) THEN Len(s) ELSE b)

\* s[i] of Python for 0 <= i < len(s)
At(s, i) == s[i + 1]

\* [x] * n of Python: empty for n <= 0
Repeat(x, n) == IF n <= 0 THEN <<>> ELSE [i \in 1..n |-> x]

\* " " * n
Spaces(n) == Repeat(" ", n)

StartsWith(s, p) == Len(s) >= Len(p) /\ SubSeq(s, 1, Len(p)) = p

\* s.find(p): the 0-based index of the first occurrence, -1 when there is none
find(s, p) ==
    LET hits == {i \in 0..(Len(s) - Len(p)) : Slice(s, i, i + Len(p)) = p}
    IN  IF hits = {} THEN -1 ELSE CHOOSE i \in hits : \A j \in hits : i <= j

\* s.rfind(p)
rfind(s, p) ==
    LET hits == {i \in 0..(Len(s) - Len(p)) : Slice(s, i, i + Len(p)) = p}
    IN  IF hits = {} THEN -1 ELSE CHOOSE i \in hits : \A j \in hits : i >= j

\* p in s
Contains(s, p) == find(s, p) >= 0

\* s.strip()
strip(s) ==
    LET keep == {i \in DOMAIN s : s[i] \notin Whitespace}
    IN  IF keep = {} THEN <<>>
        ELSE SubSeq(s, CHOOSE i \in keep : \A j \in keep : i <= j,
                       CHOOSE i \in keep : \A j \in keep : i >= j)

\* s.ljust(n)
ljust(s, n) == s \o Spaces(n - Len(s))

RECURSIVE SkipSpace(_, _)
SkipSpace(s, i) ==
    IF i <= Len(s) /\ s[i] \in Whitespace THEN SkipSpace(s, i + 1) ELSE i

RECURSIVE SkipWord(_, _)
SkipWord(s, i) ==
    IF i <= Len(s) /\ s[i] \notin Whitespace THEN SkipWord(s, i + 1) ELSE i

\* s.split(maxsplit=n) from 1-based position i on: whitespace runs delimit,
\* and after n splits the rest (leading whitespace skipped) is one unit
RECURSIVE SplitFrom(_, _, _)
SplitFrom(s, i, n) ==
    LET b == SkipSpace(s, i)
    IN  IF b > Len(s) THEN <<>>
        ELSE IF n = 0 THEN <<SubSeq(s, b, Len(s))>>
        ELSE LET e == SkipWord(s, b)
             IN  <<SubSeq(s, b, e - 1)>> \o SplitFrom(s, e, n - 1)

split(s, maxsplit) == SplitFrom(s, 1, maxsplit)

\* s.split(sep, 1)
split_once(s, sep) ==
    LET k == find(s, sep)
    IN  IF k < 0 THEN <<s>>
        ELSE <<Slice(s, 0, k), Slice(s, k + Len(sep), Len(s))>>

\* str(n) for n >= 0
RECURSIVE str(_)
str(n) ==
    LET d == <<"0", "1", "2", "3", "4", "5", "6", "7", "8", "9">>
    IN  IF n < 10 THEN <<d[n + 1]>> ELSE str(n \div 10) \o <<d[(n % 10) + 1]>>

----------------------------------------------------------------------------
(* The escape-sequence functions *)

\* The parameter characters [0-9;]* of an escape span, from 1-based position j
RECURSIVE ParamsEnd(_, _)
ParamsEnd(s, j) ==
    IF j <= Len(s) /\ s[j] \in (Digits \cup {";"}) THEN ParamsEnd(s, j + 1) ELSE j

\* The 1-based index of the terminator when \x1b\[[0-9;]*[terms] matches at
\* position i, and 0 when it does not
MatchEnd(s, i, terms) ==
    IF i + 1 <= Len(s) /\ s[i] = ESC /\ s[i + 1] = "["
    THEN LET j == ParamsEnd(s, i + 2)
         IN  IF j <= Len(s) /\ s[j] \in terms THEN j ELSE 0
    ELSE 0

RECURSIVE StripFrom(_, _)
StripFrom(s, i) ==
    IF i > Len(s) THEN <<>>
    ELSE LET e == MatchEnd(s, i, {"m", "K"})
         IN  IF e > 0 THEN StripFrom(s, e + 1)
             ELSE <<s[i]>> \o StripFrom(s, i + 1)

\* re.sub(r'\x1b\[[0-9;]*[mK]', '', text): one left-to-right pass over the
\* non-overlapping matches; what a removal leaves behind is not rescanned
strip_ansi_codes(text) == StripFrom(text, 1)

\* re.finditer(r'\x1b\[([0-9;]*)m', text): the matches as <<start, end>>, 1-based
RECURSIVE ColorMatches(_, _)
ColorMatches(s, i) ==
    IF i > Len(s) THEN <<>>
    ELSE LET e == MatchEnd(s, i, {"m"})
         IN  IF e > 0 THEN <<(<<i, e>>)>> \o ColorMatches(s, e + 1)
             ELSE ColorMatches(s, i + 1)

get_color_code(text) ==
    LET ms == ColorMatches(text, 1)
        live == {k \in DOMAIN ms : SubSeq(text, ms[k][1] + 2, ms[k][2] - 1) # <<"0">>}
    IN  IF live = {} THEN <<>>
        ELSE LET k == CHOOSE k \in live : \A j \in live : k >= j
             IN  SubSeq(text, ms[k][1], ms[k][2])

----------------------------------------------------------------------------
(* The quote unwrapper *)

Indicators == {"*", "/", "@", "|", "="}

\* Lines 55-58: the indicator right after the closing quote, or ''
IndicatorAt(col, end) ==
    IF end < Len(col) /\ At(col, end) \in Indicators THEN <<At(col, end)>> ELSE <<>>

\* Lines 69-71: the text after the indicator, kept unless it starts with a quote
AnsiTail(col, from) ==
    IF from < Len(col) /\ At(col, from) # DQ THEN Slice(col, from, Len(col)) ELSE <<>>

\* Lines 53-73 for the outer quotes at start and end - 1 and the indicator found
Unwrapped(col, start, end, indicator, keep_indicator) ==
    Slice(col, 0, start) \o Slice(col, start + 1, end - 1)
        \o (IF keep_indicator THEN indicator ELSE <<>>)
        \o AnsiTail(col, end + Len(indicator))

\* Line 42: the visible text starts with a quote and has another one later
IsQuoted(clean) ==
    StartsWith(clean, <<DQ>>) /\ DQ \in Range(Slice(clean, 1, Len(clean)))

\* Lines 49-50 onwards, the closing quote being at end - 1
UnwrapBetween(col, start, end, keep_indicator) ==
    Unwrapped(col, start, end, IndicatorAt(col, end), keep_indicator)

\* A slip to tell apart: the closing quote taken to be the first quote after
\* the opening one (find in place of rfind)
strip_quotes_python_first_pair(col, keep_indicator) ==
    IF col = <<>> THEN col
    ELSE IF ~IsQuoted(strip_ansi_codes(col)) THEN col
    ELSE UnwrapBetween(col, find(col, <<DQ>>),
             find(col, <<DQ>>) + 2
                 + find(Slice(col, find(col, <<DQ>>) + 1, Len(col)), <<DQ>>),
             keep_indicator)

strip_quotes_python(col, keep_indicator) ==
    IF col = <<>> THEN col
    ELSE IF ~IsQuoted(strip_ansi_codes(col)) THEN col
    ELSE UnwrapBetween(col, find(col, <<DQ>>), rfind(col, <<DQ>>) + 1, keep_indicator)

----------------------------------------------------------------------------
(* The line tokenizer *)

\* parts.extend([""] * (9 - len(parts)))
PadParts(parts) == parts \o Repeat(<<>>, 9 - Len(parts))

\* Lines 82-90: the unpacking of the pieces of split(' -> ', 1).  The result
\* is [raised |-> FALSE, columns |-> the 11 columns], or
\* [raised |-> TRUE, columns |-> <<>>] when there are not two pieces to unpack
\* (ValueError)
UnpackArrow(parts, pieces) ==
    IF Len(pieces) # 2 THEN [raised |-> TRUE, columns |-> <<>>]
    ELSE [raised |-> FALSE,
          columns |-> SubSeq(parts, 1, 8) \o <<pieces[1], (<<"-", ">">>), pieces[2]>>]

\* Lines 80-90 for the padded parts
ColumnsOf(parts) ==
    IF Contains(strip_ansi_codes(parts[9]), ArrowSep)
    THEN UnpackArrow(parts, split_once(parts[9], ArrowSep))
    ELSE [raised |-> FALSE,
          columns |-> SubSeq(parts, 1, 8) \o <<parts[9], (<<" ">>), (<<" ">>)>>]

\* A slip to tell apart: maxsplit one too small
split_line_into_columns_maxsplit7(line) == ColumnsOf(PadParts(split(strip(line), 7)))

split_line_into_columns(line) == ColumnsOf(PadParts(split(strip(line), 8)))

----------------------------------------------------------------------------
(* The width calculator *)

\* widths = [0] * 11 and extra_widths = {'0': 4, '*': 0}
NoWidths == [widths |-> [i \in 0..10 |-> 0],
             extra_widths |-> [c \in {"0", "*"} |-> IF c = "0" THEN 4 ELSE 0],
             raised |-> FALSE]

\* display_col of lines 99-112 for the column i
DisplayCol(columns, i, strip_quotes) ==
    IF i \in {8, 10} /\ strip_quotes
    THEN strip_ansi_codes(strip_quotes_python(At(columns, i), TRUE))
    ELSE strip_ansi_codes(At(columns, i))

\* Lines 98-113 for the tokenized line t: w is the table so far; raised is
\* set when the tokenizer raised
MeasureColumns(w, t, strip_quotes) ==
    IF t.raised THEN [w EXCEPT !.raised = TRUE]
    ELSE IF Len(t.columns) # 11 THEN w
    ELSE [widths |->
              [i \in 0..10 |->
                  Max(w.widths[i], Len(DisplayCol(t.columns, i, strip_quotes)))],
          extra_widths |->
              [c \in {"0", "*"} |->
                  Max(w.extra_widths[c],
                      Len(DisplayCol(t.columns, IF c = "0" THEN 9 ELSE 10, strip_quotes)))],
          raised |-> FALSE]

\* One iteration of the loop of calculate_column_widths
MeasureLine(w, line, strip_quotes) ==
    MeasureColumns(w, split_line_into_columns(line), strip_quotes)

RECURSIVE MeasureFrom(_, _, _, _)
MeasureFrom(w, ls, k, strip_quotes) ==
    IF k > Len(ls) \/ w.raised THEN w
    ELSE MeasureFrom(MeasureLine(w, ls[k], strip_quotes), ls, k + 1, strip_quotes)

calculate_column_widths(ls, strip_quotes) == MeasureFrom(NoWidths, ls, 1, strip_quotes)

----------------------------------------------------------------------------
(* The table renderer *)

SelString == <<"1", "2", "3", "4", "5", "6", "7", "8", "9", "0", "*">>
SelChars == Range(SelString)
FieldChars == {"1", "2", "3", "4", "5", "6", "7", "8", "9"}

\* int(c) for a digit c
int_digit(c) == CHOOSE n \in 0..9 : str(n) = <<c>>

\* The width the selected column c is padded to
ColumnWidth(c, w, ew) == IF c \in FieldChars THEN w[int_digit(c) - 1] ELSE ew[c]

\* part in "1234567890*": a substring test, true of the empty string too
InSelString(part) == Contains(SelString, part)

\* The concatenation of lines 127-130 and 302-305: parts[0], then the
\* separator and the part for each further part
RECURSIVE JoinParts(_, _, _)
JoinParts(parts, seps, k) ==
    IF k <= 1 THEN parts[1]
    ELSE JoinParts(parts, seps, k - 1)
             \o (IF k - 2 < Len(seps) THEN At(seps, k - 2) ELSE <<" ">>)
             \o parts[k]

\* print_header: [raised |-> TRUE] is header_parts[0] on an empty list
print_header(w, ew, cts, seps) ==
    IF cts = <<>> THEN [raised |-> TRUE, output |-> <<>>]
    ELSE [raised |-> FALSE,
          output |-> JoinParts([k \in DOMAIN cts |->
                                  ljust(<<cts[k]>>, ColumnWidth(cts[k], w, ew))],
                               seps, Len(cts))]

\* text has visible content: strip_ansi_codes(text).strip() is not empty
Visible(text) == strip(strip_ansi_codes(text)) # <<>>

\* A slip to tell apart: the quotes left in place whatever use_quotes is
DisplayColsQuoted(columns, quotes) == columns

\* display_cols of lines 266-270
DisplayCols(columns, quotes) ==
    IF quotes THEN columns
    ELSE [k \in DOMAIN columns |->
            IF k = 9 THEN strip_quotes_python(At(columns, 8), TRUE)
            ELSE IF k = 11 /\ Visible(At(columns, 10))
                 THEN strip_quotes_python(At(columns, 10), TRUE)
            ELSE columns[k]]

\* output_cols of lines 271-280, one entry per selected column
OutputCols(display_cols, cts, ew) ==
    [k \in DOMAIN cts |->
        IF cts[k] \in FieldChars THEN At(display_cols, int_digit(cts[k]) - 1)
        ELSE IF cts[k] = "0"
             THEN IF Visible(At(display_cols, 10))
                  THEN <<" ", "-", ">", " ">> ELSE Spaces(4)
        ELSE IF Visible(At(display_cols, 10))
             THEN At(display_cols, 10) ELSE Spaces(ew["*"])]

\* has_following of lines 289-291, for the 0-based position i
HasFollowing(i, cts, output_cols) ==
    /\ i < Len(cts) - 1
    /\ At(cts, i + 1) \in SelChars
    /\ Visible(At(output_cols, i + 1))

\* The reverse-video run of line 294
ReversePadding(color, n) ==
    color \o <<ESC, "[", "7", "m">> \o Spaces(n)
          \o <<ESC, "[", "2", "7", "m">> \o <<ESC, "[", "0", "m">>

\* A slip to tell apart: the test for following content left out
HighlightsAlone(c, maxpad, padding_len, has_following) ==
    (c = "9" \/ c = "*") /\ maxpad > 0 /\ padding_len >= maxpad

\* The test of line 292
Highlights(c, maxpad, padding_len, has_following) ==
    (c = "9" \/ c = "*") /\ maxpad > 0 /\ padding_len >= maxpad /\ has_following

\* Lines 292-298: the padding of a '1'-'9' or '*' cell
Padding(c, col, maxpad, padding_len, has_following) ==
    IF Highlights(c, maxpad, padding_len, has_following)
    THEN ReversePadding(get_color_code(col), padding_len)
    ELSE Spaces(padding_len)

\* Lines 285-299 and 301, the padding length being known
CellOf(c, col, maxpad, padding_len, has_following) ==
    [c |-> c, col |-> col, padding_len |-> padding_len,
     has_following |-> has_following,
     padding |-> IF c = "0" THEN Spaces(padding_len)
                 ELSE Padding(c, col, maxpad, padding_len, has_following)]

\* The body of the loop of lines 283-301 for the 0-based position i: the
\* cell's column, text, padding length and padding ('0' is padded by ljust)
PadCell(i, cts, output_cols, w, ew, maxpad) ==
    CellOf(At(cts, i), At(output_cols, i), maxpad,
           IF At(cts, i) = "0" THEN ew["0"] - Len(At(output_cols, i))
           ELSE ColumnWidth(At(cts, i), w, ew) - Len(strip_ansi_codes(At(output_cols, i))),
           HasFollowing(i, cts, output_cols))

\* Lines 295-299 for the cell of the 0-based position i: line 296 appends the
\* color to the cell before when the padding is highlighted,
\* i < len(selected_padded) and the color is not empty
AppendCell(selected_padded, cell, i, maxpad) ==
    Append(IF /\ Highlights(cell.c, maxpad, cell.padding_len, cell.has_following)
              /\ i < Len(selected_padded)
              /\ get_color_code(cell.col) # <<>>
           THEN [selected_padded EXCEPT
                    ![Len(selected_padded)] = @ \o get_color_code(cell.col)]
           ELSE selected_padded,
           cell.col \o cell.padding)

\* selected_padded after the positions 0..k-1 of the loop of lines 283-301
RECURSIVE SelectedPadded(_, _, _)
SelectedPadded(cells, k, maxpad) ==
    IF k = 0 THEN <<>>
    ELSE AppendCell(SelectedPadded(cells, k - 1, maxpad), cells[k], k - 1, maxpad)

\* Lines 281-306 for the output columns: the cells and the printed line
RowOf(cells, seps, maxpad) ==
    [raised |-> FALSE, cells |-> cells,
     output |-> JoinParts(SelectedPadded(cells, Len(cells), maxpad), seps, Len(cells))]

\* Lines 266-306 for one tokenized line: the local values and the printed line;
\* [raised |-> TRUE] is selected_padded[0] on an empty list
RenderRow(columns, cts, seps, w, ew, quotes, maxpad) ==
    IF cts = <<>> THEN [raised |-> TRUE, cells |-> <<>>, output |-> <<>>]
    ELSE RowOf([k \in DOMAIN cts |->
                   PadCell(k - 1, cts, OutputCols(DisplayCols(columns, quotes), cts, ew),
                           w, ew, maxpad)],
               seps, maxpad)

----------------------------------------------------------------------------
(* The command line *)

\* -Q
ArgQ == <<"-", "Q">>

\* --header
ArgHeader == <<"-", "-", "h", "e", "a", "d", "e", "r">>

\* --max-pad
ArgMaxPad == <<"-", "-", "m", "a", "x", "-", "p", "a", "d">>

\* --help
ArgHelp == <<"-", "-", "h", "e", "l", "p">>

\* --version
ArgVersion == <<"-", "-", "v", "e", "r", "s", "i", "o", "n">>

\* int(s): a sign and decimal digits; ok is FALSE where int raises ValueError
int(s) ==
    LET signed == s # <<>> /\ s[1] \in {"-", "+"}
        digits == IF signed THEN Tail(s) ELSE s
        val[k \in 0..Len(digits)] ==
            IF k = 0 THEN 0 ELSE 10 * val[k - 1] + int_digit(digits[k])
    IN  IF digits = <<>> \/ ~(Range(digits) \subseteq Digits)
        THEN [ok |-> FALSE, value |-> 0]
        ELSE [ok |-> TRUE,
              value |-> IF signed /\ s[1] = "-" THEN 0 - val[Len(digits)]
                        ELSE val[Len(digits)]]

\* Lines 207-214 for "--max-pad" at the 0-based position i: both arguments
\* are popped, or sys.exit(1) is reached (exit)
PopMaxPad(a, i, n) ==
    IF n.ok
    THEN [exit |-> FALSE, max_pad |-> n.value,
          args |-> Slice(a, 0, i) \o Slice(a, i + 2, Len(a))]
    ELSE [exit |-> TRUE, max_pad |-> 5, args |-> a]

\* The 0-based positions of a "--max-pad" that has a successor
MaxPadAt(a) == {i \in 0..(Len(a) - 1) : At(a, i) = ArgMaxPad /\ i + 1 < Len(a)}

FirstOf(S) == CHOOSE i \in S : \A j \in S : i <= j

\* Lines 204-214: the first "--max-pad" that has a successor is parsed
ParseMaxPad(a) ==
    IF MaxPadAt(a) = {} THEN [exit |-> FALSE, max_pad |-> 5, args |-> a]
    ELSE PopMaxPad(a, FirstOf(MaxPadAt(a)), int(At(a, FirstOf(MaxPadAt(a)) + 1)))

\* Lines 218-222: whether arg goes to format_args
IsFormatArg(arg) ==
    \/ StartsWith(arg, <<"-">>) /\ Range(Slice(arg, 1, Len(arg))) \subseteq SelChars
    \/ StartsWith(arg, <<"-", "-">>) /\ Range(Slice(arg, 2, Len(arg))) \cap SelChars # {}

format_args(a) == SelectSeq(a, IsFormatArg)

\* re.split(r'([1234567890*])', raw): the texts between the identifiers,
\* alternating with the identifiers
RECURSIVE ReSplit(_, _, _)
ReSplit(raw, i, text) ==
    IF i > Len(raw) THEN <<text>>
    ELSE IF raw[i] \in SelChars
         THEN <<text, (<<raw[i]>>)>> \o ReSplit(raw, i + 1, <<>>)
         ELSE ReSplit(raw, i + 1, Append(text, raw[i]))

\* The loop of lines 235-240 from the 0-based position i of parts on
RECURSIVE ExtendedSeparators(_, _)
ExtendedSeparators(parts, i) ==
    IF i > Len(parts) - 1 THEN <<>>
    ELSE (IF InSelString(At(parts, i)) /\ i < Len(parts) - 1
          THEN LET sep == IF i + 1 < Len(parts) THEN At(parts, i + 1) ELSE <<" ">>
               IN  <<(IF InSelString(sep) THEN <<" ">> ELSE sep)>>
          ELSE <<>>)
         \o ExtendedSeparators(parts, i + 1)

\* Lines 227-243: the selection and the separators after format_args[k..]
RECURSIVE SelectColumns(_, _, _)
SelectColumns(fargs, k, sel) ==
    IF k > Len(fargs) THEN sel
    ELSE LET arg == fargs[k]
         IN  IF StartsWith(arg, <<"-", "-">>)
             THEN LET raw_arg == Slice(arg, 2, Len(arg))
                  IN  SelectColumns(fargs, k + 1,
                        [columns_to_show |-> SelectSeq(raw_arg, LAMBDA c : c \in SelChars),
                         separators |-> ExtendedSeparators(ReSplit(raw_arg, 1, <<>>), 1)])
             ELSE IF StartsWith(arg, <<"-">>)
             THEN SelectColumns(fargs, k + 1,
                        [columns_to_show |-> Slice(arg, 1, Len(arg)),
                         separators |-> Repeat(<<" ">>, Len(arg) - 2)])
             ELSE SelectColumns(fargs, k + 1, sel)

DefaultSelection == [columns_to_show |-> SelString,
                     separators |-> Repeat(<<" ">>, Len(SelString) - 1)]

----------------------------------------------------------------------------
(* Inputs: command lines and listings *)

MaxLines == 2

\* total 24
LineTotal == <<"t", "o", "t", "a", "l", " ", "2", "4">>

\* lrwxrwxrwx 1 alice staff 7 Mar 3 10:00 "link" -> "target"
LineLink == <<"l", "r", "w", "x", "r", "w", "x", "r", "w", "x", " ", "1", " ",
    "a", "l", "i", "c", "e", " ", "s", "t", "a", "f", "f", " ", "7", " ", "M",
    "a", "r", " ", "3", " ", "1", "0", ":", "0", "0", " ", DQ, "l", "i", "n",
    "k", DQ, " ", "-", ">", " ", DQ, "t", "a", "r", "g", "e", "t", DQ>>

\* -rw-r--r-- 1 bob staff 12 Mar 3 10:01 "notes.txt"
LineFile == <<"-", "r", "w", "-", "r", "-", "-", "r", "-", "-", " ", "1", " ",
    "b", "o", "b", " ", "s", "t", "a", "f", "f", " ", "1", "2", " ", "M", "a",
    "r", " ", "3", " ", "1", "0", ":", "0", "1", " ", DQ, "n", "o", "t", "e",
    "s", ".", "t", "x", "t", DQ>>

\* lrwxrwxrwx 1 bob staff 1 Mar 3 10:02 <ESC>[01;36m"l"<ESC>[0m -> <ESC>[01;34m"t"<ESC>[0m/
LineColorLink == <<"l", "r", "w", "x", "r", "w", "x", "r", "w", "x", " ", "1",
    " ", "b", "o", "b", " ", "s", "t", "a", "f", "f", " ", "1", " ", "M", "a",
    "r", " ", "3", " ", "1", "0", ":", "0", "2", " ", ESC, "[", "0", "1", ";",
    "3", "6", "m", DQ, "l", DQ, ESC, "[", "0", "m", " ", "-", ">", " ", ESC,
    "[", "0", "1", ";", "3", "4", "m", DQ, "t", DQ, ESC, "[", "0", "m", "/">>

\* foo
LineShort == <<"f", "o", "o">>

\* lrwxrwxrwx 1 bob staff 1 Mar 3 10:04 "a" -<ESC>[0m> "b"
LineSplitArrow == <<"l", "r", "w", "x", "r", "w", "x", "r", "w", "x", " ", "1",
    " ", "b", "o", "b", " ", "s", "t", "a", "f", "f", " ", "1", " ", "M", "a",
    "r", " ", "3", " ", "1", "0", ":", "0", "4", " ", DQ, "a", DQ, " ", "-",
    ESC, "[", "0", "m", ">", " ", DQ, "b", DQ>>

SampleLines == {LineTotal, LineLink, LineFile, LineColorLink, LineShort,
                LineSplitArrow}

\* The listings ls may print: up to MaxLines lines
Listings == UNION {[1..n -> SampleLines] : n \in 0..MaxLines}

\* The column selections given on the command line: none, the short form, the
\* extended form, two at once
FormatChoices ==
    { <<>>,
      <<(<<"-", "9", "5">>)>>,
      <<(<<"-", "9", "0", "*">>)>>,
      <<(<<"-", "*", "9">>)>>,
      <<(<<"-">>)>>,
      <<(<<"-", "-", "9", "5", "_", "1">>)>>,
      <<(<<"-", "9", "1">>), (<<"-", "-", "5", " ", "|", " ", "9">>)>> }

\* The other arguments given on the command line
OptionChoices ==
    { <<>>,
      <<ArgQ, (<<"d", "o", "c", "s">>)>>,
      <<ArgHeader, ArgMaxPad, (<<"1">>)>>,
      <<ArgMaxPad, (<<"0">>)>>,
      <<ArgMaxPad, (<<"x">>)>> }

CommandLines ==
    {o \o f : o \in OptionChoices, f \in FormatChoices}
        \cup {<<ArgHelp>>, <<(<<"-", "9">>), ArgVersion>>, <<ArgHelp, ArgVersion>>}

----------------------------------------------------------------------------
(* main() *)

\* What print_version and print_help write, as one line each
VersionText == <<"colls.py version 1.0.0">>
HelpText == <<"Usage: colls.py [OPTIONS] [LS_ARGS]">>

MainInit ==
    /\ pc = "start"
    /\ args \in CommandLines
    /\ use_quotes = FALSE
    /\ show_header = FALSE
    /\ max_pad = 5
    /\ columns_to_show = <<>>
    /\ separators = <<>>
    /\ stdout = <<>>
    /\ lines = <<>>
    /\ widths = NoWidths.widths
    /\ extra_widths = NoWidths.extra_widths
    /\ idx = 0
    /\ file_count = 0
    /\ out = <<>>
    /\ row = <<>>

\* No function is under test while main() runs
FnIdle == fn_pc = "idle" /\ fn_in = <<>> /\ fn_out = <<>>

\* Lines 194-196
ShowVersion ==
    /\ pc = "start"
    /\ ArgVersion \in Range(args)
    /\ out' = Append(out, VersionText)
    /\ pc' = "exit0"
    /\ UNCHANGED <<args, use_quotes, show_header, max_pad, columns_to_show,
                   separators, stdout, lines, widths, extra_widths, idx,
                   file_count, row>>
    /\ UNCHANGED fnVars

\* Lines 198-200
ShowHelp ==
    /\ pc = "start"
    /\ ArgVersion \notin Range(args)
    /\ ArgHelp \in Range(args)
    /\ out' = Append(out, HelpText)
    /\ pc' = "exit0"
    /\ UNCHANGED <<args, use_quotes, show_header, max_pad, columns_to_show,
                   separators, stdout, lines, widths, extra_widths, idx,
                   file_count, row>>
    /\ UNCHANGED fnVars

\* Lines 202-243 once the options are parsed: the configuration is set, or
\* sys.exit(1) is reached on a "--max-pad" that is no integer
Configure(mp, sel) ==
    /\ use_quotes' = (ArgQ \in Range(args))
    /\ show_header' = (ArgHeader \in Range(args))
    /\ IF mp.exit
       THEN /\ pc' = "exit1"
            /\ UNCHANGED <<args, max_pad, columns_to_show, separators>>
       ELSE /\ pc' = "ls"
            /\ max_pad' = mp.max_pad
            /\ args' = mp.args
            /\ columns_to_show' = sel.columns_to_show
            /\ separators' = sel.separators

\* Lines 227-243 for the arguments left after "--max-pad" was popped
Selection(a) == SelectColumns(format_args(a), 1, DefaultSelection)

\* Lines 202-243: the options, then the selection and its separators
ParseArgs ==
    /\ pc = "start"
    /\ ArgVersion \notin Range(args)
    /\ ArgHelp \notin Range(args)
    /\ Configure(ParseMaxPad(args), Selection(ParseMaxPad(args).args))
    /\ UNCHANGED <<stdout, lines, widths, extra_widths, idx, file_count, out, row>>
    /\ UNCHANGED fnVars

\* Line 251: the listing starts with a summary line
HasTotal(ls) == ls # <<>> /\ StartsWith(ls[1], <<"t", "o", "t", "a", "l">>)

\* Lines 245-256 (to the call): ls succeeds and prints some listing; a first
\* line starting with "total" is printed and dropped
RunLs ==
    /\ pc = "ls"
    /\ stdout' \in Listings
    /\ IF HasTotal(stdout')
       THEN out' = Append(out, stdout'[1]) /\ lines' = Tail(stdout')
       ELSE out' = out /\ lines' = stdout'
    /\ widths' = NoWidths.widths
    /\ extra_widths' = NoWidths.extra_widths
    /\ idx' = 0
    /\ pc' = "measure"
    /\ UNCHANGED <<args, use_quotes, show_header, max_pad, columns_to_show,
                   separators, file_count, row>>
    /\ UNCHANGED fnVars

\* Lines 246-248: ls fails
LsFails ==
    /\ pc = "ls"
    /\ pc' = "exit1"
    /\ UNCHANGED <<args, use_quotes, show_header, max_pad, columns_to_show,
                   separators, stdout, lines, widths, extra_widths, idx,
                   file_count, out, row>>
    /\ UNCHANGED fnVars

\* The table after one more line, or the end of the program on the
\* tokenizer's ValueError, which nothing catches
Measured(w) ==
    IF w.raised
    THEN pc' = "crashed" /\ UNCHANGED <<widths, extra_widths, idx>>
    ELSE /\ widths' = w.widths
         /\ extra_widths' = w.extra_widths
         /\ idx' = idx + 1
         /\ pc' = pc

\* Lines 96-113: one iteration of the loop of calculate_column_widths
MeasureNext ==
    /\ pc = "measure"
    /\ idx < Len(lines)
    /\ Measured(MeasureLine([widths |-> widths, extra_widths |-> extra_widths,
                             raised |-> FALSE], At(lines, idx), TRUE))
    /\ UNCHANGED <<args, use_quotes, show_header, max_pad, columns_to_show,
                   separators, stdout, lines, file_count, out, row>>
    /\ UNCHANGED fnVars

\* A slip to tell apart: the second pass begins before the first has seen
\* every line
MeasureDoneEarly ==
    /\ pc = "measure"
    /\ pc' = IF show_header THEN "header" ELSE "render"
    /\ idx' = 0
    /\ file_count' = 0
    /\ UNCHANGED <<args, use_quotes, show_header, max_pad, columns_to_show,
                   separators, stdout, lines, widths, extra_widths, out, row>>
    /\ UNCHANGED fnVars

\* Lines 114 and 256-261: the table is returned and the second pass begins
MeasureDone ==
    /\ pc = "measure"
    /\ idx >= Len(lines)
    /\ pc' = IF show_header THEN "header" ELSE "render"
    /\ idx' = 0
    /\ file_count' = 0
    /\ UNCHANGED <<args, use_quotes, show_header, max_pad, columns_to_show,
                   separators, stdout, lines, widths, extra_widths, out, row>>
    /\ UNCHANGED fnVars

\* The header is printed, or header_parts[0] raises IndexError
HeaderPrinted(h) ==
    IF h.raised
    THEN pc' = "crashed" /\ out' = out
    ELSE pc' = "render" /\ out' = Append(out, h.output)

\* Lines 258-259
PrintHeader ==
    /\ pc = "header"
    /\ HeaderPrinted(print_header(widths, extra_widths, columns_to_show, separators))
    /\ UNCHANGED <<args, use_quotes, show_header, max_pad, columns_to_show,
                   separators, stdout, lines, widths, extra_widths, idx,
                   file_count, row>>
    /\ UNCHANGED fnVars

\* Lines 265-306: the row r of a line of 11 columns is counted and printed, or
\* selected_padded[0] raises IndexError
RowPrinted(r) ==
    /\ file_count' = file_count + 1
    /\ IF r.raised
       THEN pc' = "crashed" /\ UNCHANGED <<idx, out, row>>
       ELSE /\ pc' = pc
            /\ row' = r.cells
            /\ out' = Append(out, r.output)
            /\ idx' = idx + 1

\* Lines 263-308 for the tokenized line t
Rendered(line, t) ==
    IF t.raised
    THEN pc' = "crashed" /\ UNCHANGED <<idx, file_count, out, row>>
    ELSE IF Len(t.columns) = 11
    THEN RowPrinted(RenderRow(t.columns, columns_to_show, separators, widths,
                              extra_widths, use_quotes, max_pad))
    ELSE /\ pc' = pc
         /\ out' = Append(out, line)
         /\ idx' = idx + 1
         /\ UNCHANGED <<file_count, row>>

\* Lines 262-308: one iteration of the render loop
RenderNext ==
    /\ pc = "render"
    /\ idx < Len(lines)
    /\ Rendered(At(lines, idx), split_line_into_columns(At(lines, idx)))
    /\ UNCHANGED <<args, use_quotes, show_header, max_pad, columns_to_show,
                   separators, stdout, lines, widths, extra_widths>>
    /\ UNCHANGED fnVars

\* Line 310
PrintCount ==
    /\ pc = "render"
    /\ idx >= Len(lines)
    /\ out' = Append(out, str(file_count) \o <<" ", "f", "o", "u", "n", "d">>)
    /\ pc' = "done"
    /\ UNCHANGED <<args, use_quotes, show_header, max_pad, columns_to_show,
                   separators, stdout, lines, widths, extra_widths, idx,
                   file_count, row>>
    /\ UNCHANGED fnVars

Init == MainInit /\ FnIdle

Next ==
    \/ ShowVersion
    \/ ShowHelp
    \/ ParseArgs
    \/ RunLs
    \/ LsFails
    \/ MeasureNext
    \/ MeasureDone
    \/ PrintHeader
    \/ RenderNext
    \/ PrintCount

Spec == Init /\ [][Next]_vars

----------------------------------------------------------------------------
(* The functions on their own: one input, then the call *)

\* main() is not running
MainIdle ==
    /\ pc = "idle"
    /\ args = <<>>
    /\ use_quotes = FALSE
    /\ show_header = FALSE
    /\ max_pad = 5
    /\ columns_to_show = <<>>
    /\ separators = <<>>
    /\ stdout = <<>>
    /\ lines = <<>>
    /\ widths = NoWidths.widths
    /\ extra_widths = NoWidths.extra_widths
    /\ idx = 0
    /\ file_count = 0
    /\ out = <<>>
    /\ row = <<>>

\* The strings of at most n characters of the alphabet A
StringsOver(A, n) == UNION {[1..k -> A] : k \in 0..n}

RECURSIVE Flatten(_)
Flatten(ss) == IF ss = <<>> THEN <<>> ELSE Head(ss) \o Flatten(Tail(ss))

(* strip_ansi_codes, applied to a text and then to its own result *)

MaxStripLen == 6
StripAlphabet == {ESC, "[", "0", ";", "m", "K"}

StripInit ==
    /\ MainIdle
    /\ fn_pc = "text"
    /\ fn_in \in StringsOver(StripAlphabet, MaxStripLen)
    /\ fn_out = <<>>

StripOnce ==
    /\ fn_pc = "text"
    /\ fn_out' = <<strip_ansi_codes(fn_in)>>
    /\ fn_pc' = "stripped"
    /\ UNCHANGED <<fn_in, mainVars>>

StripAgain ==
    /\ fn_pc = "stripped"
    /\ fn_out' = Append(fn_out, strip_ansi_codes(fn_out[1]))
    /\ fn_pc' = "stripped twice"
    /\ UNCHANGED <<fn_in, mainVars>>

StripNext == StripOnce \/ StripAgain

SpecStrip == StripInit /\ [][StripNext]_vars

(* strip_quotes_python, applied to a name as ls -Q -F prints it: escape      *)
(* spans, the quoted name, the indicator, escape spans                       *)

MaxNameLen == 3
NameAlphabet == {"a", DQ, "/", ESC, "[", "m"}
SpansBefore == {<<>>, <<ESC, "[", "0", "1", ";", "3", "4", "m">>}
SpansAfter == {<<>>, <<ESC, "[", "0", "m">>, <<ESC, "[", "m", ESC, "[", "K">>}

QuotedNames ==
    [name : StringsOver(NameAlphabet, MaxNameLen),
     ind : {<<>>} \cup {<<c>> : c \in Indicators},
     before : SpansBefore,
     after : SpansAfter]

\* The column ls prints for q
Quoted(q) == q.before \o <<DQ>> \o q.name \o <<DQ>> \o q.ind \o q.after

QuoteInit ==
    /\ MainIdle
    /\ fn_pc = "quoted"
    /\ fn_in \in QuotedNames
    /\ fn_out = <<>>

UnwrapQuotes ==
    /\ fn_pc = "quoted"
    /\ fn_out' = strip_quotes_python(Quoted(fn_in), TRUE)
    /\ fn_pc' = "unwrapped"
    /\ UNCHANGED <<fn_in, mainVars>>

QuoteNext == UnwrapQuotes

SpecQuotes == QuoteInit /\ [][QuoteNext]_vars

(* split_line_into_columns, applied to a line of some units followed by a    *)
(* tail of pieces                                                            *)

UnitCounts == {0, 1, 7, 8, 9}
MaxPieces == 6
TailPieces == {<<" ">>, <<"-">>, <<">">>, <<ESC, "[", "0", "m">>}

\* k units "u", single spaces between them
RECURSIVE Units(_)
Units(k) == IF k = 0 THEN <<>>
            ELSE IF k = 1 THEN <<"u">>
            ELSE Units(k - 1) \o <<" ", "u">>

TokenizerLines ==
    {Units(k) \o Flatten(t) :
        k \in UnitCounts, t \in StringsOver(TailPieces, MaxPieces)}

TokenizeInit ==
    /\ MainIdle
    /\ fn_pc = "line"
    /\ fn_in \in TokenizerLines
    /\ fn_out = <<>>

Tokenize ==
    /\ fn_pc = "line"
    /\ fn_out' = split_line_into_columns(fn_in)
    /\ fn_pc' = "tokenized"
    /\ UNCHANGED <<fn_in, mainVars>>

TokenizeNext == Tokenize

SpecTokenize == TokenizeInit /\ [][TokenizeNext]_vars

----------------------------------------------------------------------------
(* Properties *)

\* The n-th element of a set of positions, in increasing order
Nth(S, n) == CHOOSE i \in S : Cardinality({j \in S : j < i}) = n - 1

\* Where the whitespace-delimited units of s start and end
UnitStarts(s) ==
    {i \in DOMAIN s : s[i] \notin Whitespace /\ (i = 1 \/ s[i - 1] \in Whitespace)}
UnitEnds(s) ==
    {i \in DOMAIN s : s[i] \notin Whitespace /\ (i = Len(s) \/ s[i + 1] \in Whitespace)}

\* The n-th whitespace-delimited unit of s, empty when s has fewer units
NthUnit(s, n) ==
    IF Cardinality(UnitStarts(s)) < n THEN <<>>
    ELSE SubSeq(s, Nth(UnitStarts(s), n), Nth(UnitEnds(s), n))

\* The filename unit of s: from the start of the 9th unit to the last
\* character that is not whitespace
FilenameUnit(s) ==
    IF Cardinality(UnitStarts(s)) < 9 THEN <<>>
    ELSE SubSeq(s, Nth(UnitStarts(s), 9),
                   Nth(UnitEnds(s), Cardinality(UnitEnds(s))))

\* Where " -> " starts in u
ArrowStarts(u) == {p \in 1..(Len(u) - 3) : SubSeq(u, p, p + 3) = ArrowSep}

\* Slots 8, 9, 10 as the tokenizer's contract gives them for the filename unit u
ArrowSlots(u) ==
    IF ArrowStarts(u) = {} THEN <<u, (<<" ">>), (<<" ">>)>>
    ELSE <<SubSeq(u, 1, Nth(ArrowStarts(u), 1) - 1),
           (<<"-", ">">>),
           SubSeq(u, Nth(ArrowStarts(u), 1) + 4, Len(u))>>

\* C1: whenever split_line_into_columns returns, the result has exactly 11
\* slots: slots 0-7 are the first eight whitespace-delimited units of the line
\* (empty when missing), slot 8 is the filename, and slots 9 and 10 are "->"
\* and the text after the first " -> " when the filename unit contains " -> ",
\* and " " and " " otherwise.
TokenizerShape ==
    (fn_pc = "tokenized" /\ ~fn_out.raised) =>
        /\ Len(fn_out.columns) = 11
        /\ \A n \in 1..8 : fn_out.columns[n] = NthUnit(fn_in, n)
        /\ SubSeq(fn_out.columns, 9, 11) = ArrowSlots(FilenameUnit(fn_in))

\* A line of nine units and more whose filename unit holds " -> " was tokenized
TokenizerShapeWitness ==
    /\ fn_pc = "tokenized"
    /\ ~fn_out.raised
    /\ Cardinality(UnitStarts(fn_in)) > 9
    /\ fn_out.columns[10] = <<"-", ">">>
    /\ fn_out.columns[11] # <<>>

\* C2: strip_ansi_codes is idempotent: stripping the stripped text changes
\* nothing.
StripIdempotent ==
    fn_pc = "stripped twice" => fn_out[2] = fn_out[1]

\* C3: strip_quotes_python of a quoted name with its indicator, with escape
\* spans before the opening quote and after the indicator, is the name and the
\* indicator with only the outermost quotes removed and every escape span kept
\* in place.
QuoteRoundTrip ==
    fn_pc = "unwrapped" =>
        fn_out = fn_in.before \o fn_in.name \o fn_in.ind \o fn_in.after

\* The colored name a"a with the indicator / was unwrapped to a"a/
QuoteRoundTripWitness ==
    /\ fn_pc = "unwrapped"
    /\ fn_in.name = <<"a", DQ, "a">>
    /\ fn_in.ind = <<"/">>
    /\ fn_in.before # <<>>
    /\ fn_in.after # <<>>
    /\ strip_ansi_codes(fn_out) = <<"a", DQ, "a", "/">>

\* The run of the scenario: the one line
\* lrwxrwxrwx 1 alice staff 7 Mar 3 10:00 "link" -> "target", the selection
\* 9,0,* with single-space separators, quotes off, to the end
ScenarioRun ==
    /\ pc = "done"
    /\ stdout = <<LineLink>>
    /\ columns_to_show = <<"9", "0", "*">>
    /\ separators = <<(<<" ">>), (<<" ">>)>>
    /\ ~use_quotes

\* The line printed for the last input line, once the count is printed
LastRowPrinted == out[Len(out) - 1]

\* C4, as claimed: the scenario renders as `link -> target`.
ScenarioSingleSpaced ==
    ScenarioRun =>
        LastRowPrinted = <<"l", "i", "n", "k", " ", "-", ">", " ",
                           "t", "a", "r", "g", "e", "t">>

\* C4, amended: the scenario renders as `link  ->  target`: the arrow column is
\* the four characters " -> " and a single-space separator stands on each side.
ScenarioDoubleSpaced ==
    ScenarioRun =>
        LastRowPrinted = <<"l", "i", "n", "k", " ", " ", "-", ">", " ", " ",
                           "t", "a", "r", "g", "e", "t">>

ScenarioWitness == ScenarioRun /\ Len(out) = 2

\* The padding the i-th cell of the rendered row needs to reach its column's
\* width, and whether the next selected column has visible content
NeededPadding(i) ==
    ColumnWidth(row[i].c, widths, extra_widths) - Len(strip_ansi_codes(row[i].col))
FollowedByContent(i) == i < Len(row) /\ Visible(row[i + 1].col)

\* C5: in every rendered row the padding of a selected column is the
\* reverse-video run (last active color, ESC[7m, the spaces, ESC[27m, ESC[0m)
\* if and only if the column is '9' or '*', max_pad > 0, the needed padding is
\* at least max_pad and the next selected column has visible content;
\* otherwise it is plain spaces.  The printed line is made of these cells.
ReverseHighlightRule ==
    /\ \A i \in DOMAIN row :
         row[i].padding =
            IF /\ row[i].c \in {"9", "*"}
               /\ max_pad > 0
               /\ NeededPadding(i) >= max_pad
               /\ FollowedByContent(i)
            THEN ReversePadding(get_color_code(row[i].col), NeededPadding(i))
            ELSE Spaces(NeededPadding(i))
    /\ (pc = "render" /\ idx > 0) =>
         out[Len(out)] = JoinParts([i \in DOMAIN row |-> row[i].col \o row[i].padding],
                                   separators, Len(row))

\* A row was rendered with a highlighted, colored padding, and one with a
\* padding of max_pad and more that is not highlighted
ReverseHighlightWitness ==
    /\ pc = "render"
    /\ \E i \in DOMAIN row :
         /\ get_color_code(row[i].col) # <<>>
         /\ row[i].padding = ReversePadding(get_color_code(row[i].col), NeededPadding(i))
    /\ \E i \in DOMAIN row :
         /\ row[i].c \in {"9", "*"}
         /\ max_pad > 0
         /\ NeededPadding(i) >= max_pad
         /\ row[i].padding = Spaces(NeededPadding(i))

\* A genuine listing row has the nine units of an ls -l line
IsListingRow(line) == Cardinality(UnitStarts(line)) >= 9

\* What is printed before the rows: the summary line, the header
TotalPart == IF HasTotal(stdout) THEN <<stdout[1]>> ELSE <<>>
HeaderPart ==
    IF show_header
    THEN <<print_header(widths, extra_widths, columns_to_show, separators).output>>
    ELSE <<>>

\* C6: a line that is no listing row (fewer than 9 units, an empty line) is
\* printed unchanged and not counted, so the count is the number of genuine
\* listing rows.
MalformedPassThrough ==
    pc = "done" =>
        /\ file_count = Cardinality({k \in DOMAIN lines : IsListingRow(lines[k])})
        /\ \A k \in DOMAIN lines :
             ~IsListingRow(lines[k]) =>
                 out[Len(TotalPart) + Len(HeaderPart) + k] = lines[k]

\* C7: the tokenizer never raises, whatever the line.
TokenizerNeverRaises ==
    fn_pc = "tokenized" => ~fn_out.raised

\* The width table is the table t
TableIs(t) == widths = t.widths /\ extra_widths = t.extra_widths

\* The line printed for a line tokenized as t, rendered with the width table
RowFor(line, t) ==
    IF Len(t.columns) = 11
    THEN RenderRow(t.columns, columns_to_show, separators, widths, extra_widths,
                   use_quotes, max_pad).output
    ELSE line
ExpectedLines(n) ==
    [k \in 1..n |-> RowFor(lines[k], split_line_into_columns(lines[k]))]

\* C8: the width table is complete, over all lines but the summary line,
\* before the header or a row is printed, and does not change afterwards; the
\* output is the summary line (a first line starting with "total"), then the
\* header if asked for, then one line per remaining input line in input order,
\* then the count line.
TwoPassOrder ==
    /\ pc \in {"measure", "header", "render", "done", "crashed"} =>
         lines = (IF HasTotal(stdout) THEN Tail(stdout) ELSE stdout)
    /\ pc \in {"measure", "header", "crashed"} => out = TotalPart
    /\ pc \in {"header", "render", "done"} =>
         TableIs(calculate_column_widths(lines, TRUE))
    /\ pc = "render" => out = TotalPart \o HeaderPart \o ExpectedLines(idx)
    /\ pc = "done" =>
         /\ Len(out) = Len(TotalPart) + Len(HeaderPart) + Len(lines) + 1
         /\ SubSeq(out, 1, Len(out) - 1)
                = TotalPart \o HeaderPart \o ExpectedLines(Len(lines))
         /\ out[Len(out)] = str(file_count) \o <<" ", "f", "o", "u", "n", "d">>

\* A run with a summary line, a header and two rows came to its end
TwoPassOrderWitness ==
    /\ pc = "done"
    /\ HasTotal(stdout)
    /\ show_header
    /\ Len(lines) = MaxLines - 1
    /\ Len(lines) >= 1
    /\ widths[8] > 0
    /\ Len(out) = Len(lines) + 3

\* The identifiers of the selection argument raw, and the text written
\* between the i-th and the next one (a single space when there is none)
IdentifierPositions(raw) == {p \in DOMAIN raw : raw[p] \in SelChars}
WrittenSeparator(raw, i) ==
    IF Nth(IdentifierPositions(raw), i) + 1 = Nth(IdentifierPositions(raw), i + 1)
    THEN <<" ">>
    ELSE SubSeq(raw, Nth(IdentifierPositions(raw), i) + 1,
                     Nth(IdentifierPositions(raw), i + 1) - 1)

\* The selection argument in force: the last one, without its - or --
SelectionArgument ==
    IF StartsWith(format_args(args)[Len(format_args(args))], <<"-", "-">>)
    THEN Slice(format_args(args)[Len(format_args(args))], 2,
               Len(format_args(args)[Len(format_args(args))]))
    ELSE Slice(format_args(args)[Len(format_args(args))], 1,
               Len(format_args(args)[Len(format_args(args))]))

\* C9: once a selection argument (short or extended form) is parsed, there is
\* one separator less than selected columns, and the i-th separator is the
\* text written between the i-th identifier and the next (a single space when
\* that text is empty).
SeparatorsMatchSelection ==
    (pc = "ls" /\ format_args(args) # <<>> /\ columns_to_show # <<>>) =>
        /\ Len(separators) = Len(columns_to_show) - 1
        /\ \A i \in 1..(Len(columns_to_show) - 1) :
             i <= Len(separators)
                 /\ separators[i] = WrittenSeparator(SelectionArgument, i)

\* C10: in every rendered row each cell's padding length is >= 0 and the
\* visible width of the cell is the width of its column in the table.
ColumnsAligned ==
    \A i \in DOMAIN row :
        /\ row[i].padding_len >= 0
        /\ Len(strip_ansi_codes(row[i].col \o row[i].padding))
               = ColumnWidth(row[i].c, widths, extra_widths)

====
